---- MODULE Spec2Model ----
(***************************************************************************)
(* Command-line weather lookup (andyheggs/data-api).                       *)
(*                                                                         *)
(* Two variants of the same interaction loop are modelled side by side:    *)
(*   variant = "weather"  src/weather.py: search_city() validates the      *)
(*                        query and disambiguates itself (callee side)     *)
(*   variant = "testing"  src/testing.py: search_city() only fetches,      *)
(*                        main() disambiguates (caller side)               *)
(*                                                                         *)
(* The process is sequential.  Its positions are the places where it       *)
(* blocks on the outside world:                                            *)
(*   AwaitingQuery     input("City?")                                      *)
(*   Resolving         requests.get(geo url).json()                        *)
(*   Disambiguating    input("Which city did you mean?")                   *)
(*   FetchingForecast  requests.get(forecast url).json()                   *)
(*   Displaying        printing the forecast                               *)
(*   Cancelled         after except KeyboardInterrupt ... sys.exit(0)      *)
(*   Crashed           an exception left the __main__ block uncaught       *)
(*                                                                         *)
(* Text is a sequence of one-character tokens, so that slicing, strip(),   *)
(* title(), isdigit() and int() are computed and not assumed.  Upstream    *)
(* JSON entries follow the schema of the proxy API; a transport or         *)
(* decoding failure is an exception raised by requests.get(...).json().    *)
(***************************************************************************)
EXTENDS Integers, Sequences, FiniteSets, TLC

VARIABLES
    variant,        \* which source file is running
    pc,             \* position of the process
    prev,           \* position before the last step (history)
    query,          \* main(): the last query read
    line,           \* the line consumed from stdin by the last step
    geo_response,   \* the geocoding answer the last step received
    results,        \* candidate list under disambiguation
    chosen_city,    \* the candidate whose coordinates are used
    response,       \* weather_forecast(): decoded forecast payload
    forecast_data,  \* main(): forecast_data
    out,            \* lines written to stdout by the last step
    http,           \* requests issued since the last "City?" line was read
    exc,            \* exception raised in the last step, "None" if none
    exit_status     \* process exit status, -1 while running

vars == <<variant, pc, prev, query, line, geo_response, results, chosen_city,
          response, forecast_data, out, http, exc, exit_status>>

----------------------------------------------------------------------------
(* Bounds *)

MaxQuery == 2       \* longest query line
MaxLine == 2        \* longest line typed at the index prompt
MaxUp == 6          \* longest geocoding array the upstream sends
MaxL == 41          \* longest forecast list the upstream sends
PatLen == 3         \* period of the forecast entries

(* Program constants *)

LIMIT == 5          \* limit=5 in the geocoding url
STRIDE == 8         \* range(..., 8)
HORIZON == 40       \* min(len(forecasts), 40)
DATE_LEN == 10      \* entry["dt_txt"][:10]

----------------------------------------------------------------------------
(* Text helpers *)

Min(a, b) == IF a < b THEN a ELSE b

NoText == <<"None">>

Whitespace == {" "}

RECURSIVE lstrip(_)
lstrip(s) ==
    IF s # <<>> /\ Head(s) \in Whitespace THEN lstrip(Tail(s)) ELSE s

RECURSIVE rstrip(_)
rstrip(s) ==
    IF s # <<>> /\ s[Len(s)] \in Whitespace
    THEN rstrip(SubSeq(s, 1, Len(s) - 1)) ELSE s

\* the check 'if not query' without the strip()
strip_missing(s) == s

\* str.strip()
strip(s) == rstrip(lstrip(s))

\* urllib.parse.quote(): a space becomes %20, letters stay
quote(s) == [i \in 1..Len(s) |-> IF s[i] = " " THEN "%20" ELSE s[i]]

\* s[:n]
Prefix(s, n) == SubSeq(s, 1, Min(Len(s), n))

LowerOf == [c \in {"a", "b", "A", "B"} |->
               CASE c = "A" -> "a" [] c = "B" -> "b" [] OTHER -> c]
UpperOf == [c \in {"a", "b", "A", "B"} |->
               CASE c = "a" -> "A" [] c = "b" -> "B" [] OTHER -> c]
Cased(c) == c \in DOMAIN LowerOf

\* str.title(): a cased character is upper-cased when it follows an uncased
\* one (or starts the string) and lower-cased otherwise
title(s) ==
    [i \in 1..Len(s) |->
        IF Cased(s[i])
        THEN IF i > 1 /\ Cased(s[i - 1]) THEN LowerOf[s[i]] ELSE UpperOf[s[i]]
        ELSE s[i]]

\* characters int() reads as decimal digits
DecimalValue == [c \in {"0", "1", "2", "3", "7"} |->
                    CASE c = "0" -> 0 [] c = "1" -> 1 [] c = "2" -> 2
                      [] c = "3" -> 3 [] OTHER -> 7]
Decimal == DOMAIN DecimalValue

\* characters str.isdigit() accepts: the decimals and also digits that are
\* not decimals, such as "^2" standing for U+00B2 SUPERSCRIPT TWO
DigitChars == Decimal \cup {"^2"}

isdigit(s) == s # <<>> /\ \A i \in 1..Len(s) : s[i] \in DigitChars

RECURSIVE DecimalOf(_)
DecimalOf(s) ==
    IF s = <<>> THEN 0
    ELSE 10 * DecimalOf(SubSeq(s, 1, Len(s) - 1)) + DecimalValue[s[Len(s)]]

\* int(s) for a string that passed isdigit(): a record with the exception
\* raised ("None" if none) and the value
int(s) ==
    IF \A i \in 1..Len(s) : s[i] \in Decimal
    THEN [exc |-> "None", value |-> DecimalOf(s)]
    ELSE [exc |-> "ValueError", value |-> 0]

RECURSIVE SeqsUpTo(_, _)
SeqsUpTo(S, n) ==
    IF n = 0 THEN {<<>>}
    ELSE LET shorter == SeqsUpTo(S, n - 1)
         IN shorter \cup {Append(s, c) : s \in shorter, c \in S}

----------------------------------------------------------------------------
(* What the outside world can send *)

QueryChars == {" ", "a"}
Queries == SeqsUpTo(QueryChars, MaxQuery)

InputChars == {"0", "1", "2", "3", "7", "a", " ", "-", "^2"}
Lines == SeqsUpTo(InputChars, MaxLine)

City(name, state, country, lat, lon) ==
    [name |-> name, state |-> state, country |-> country,
     lat |-> lat, lon |-> lon]

\* state = "" stands for an entry without a 'state' key
CityPool == <<City("Paris", "Ile-de-France", "FR", 48, 2),
              City("Paris", "Texas", "US", 33, -95),
              City("New York", "New York", "US", 40, -74),
              City("London", "", "GB", 51, 0)>>

NoCity == City("None", "", "", 0, 0)

GeoArray(off, n) ==
    [i \in 1..n |-> CityPool[((off + i - 1) % Len(CityPool)) + 1]]

Faults == {"ConnectionError", "JSONDecodeError"}

\* decoded geocoding answers: a JSON array, JSON null, an empty object, or
\* an exception out of requests.get(url).json()
GeoResponses ==
    {[exc |-> "None", json |-> "array", items |-> GeoArray(off, n)] :
        off \in 0..(Len(CityPool) - 1), n \in 0..MaxUp}
    \cup {[exc |-> "None", json |-> j, items |-> <<>>] : j \in {"null", "object"}}
    \cup {[exc |-> e, json |-> "null", items |-> <<>>] : e \in Faults}

Interval(dt, descs, temp) ==
    [dt_txt |-> dt,
     weather |-> [i \in 1..Len(descs) |-> [description |-> descs[i]]],
     main |-> [temp_max |-> temp]]

EntryPool ==
    {Interval(<<"2","0","2","5","-","0","1","-","2","9"," ","1","2",":","0","0">>,
              <<<<"a", "b", " ", "b", "a">>>>, 5),
     Interval(<<"2","0","2","5","-","0","1","-","3","0"," ","0","0",":","0","0">>,
              <<<<"A", "B">>, <<"b">>>>, -2),
     Interval(<<"2","0","2","5">>,
              <<<<"b", "'", "a">>>>, 0)}

ForecastList(pat, n) == [i \in 1..n |-> pat[((i - 1) % PatLen) + 1]]

\* decoded forecast answers: an object with or without the 'list' field, or
\* an exception out of requests.get(url).json()
ForecastResponses ==
    {[exc |-> "None", hasList |-> TRUE, list |-> ForecastList(pat, n)] :
        pat \in [1..PatLen -> EntryPool], n \in 0..MaxL}
    \cup {[exc |-> "None", hasList |-> FALSE, list |-> <<>>]}
    \cup {[exc |-> e, hasList |-> FALSE, list |-> <<>>] : e \in Faults}

NoResponse == [exc |-> "None", hasList |-> FALSE, list |-> <<>>]

NoAnswer == [exc |-> "None", json |-> "none", items |-> <<>>]

----------------------------------------------------------------------------
(* Messages and requests *)

Msg(text) == [msg |-> text]

CityPrompt == Msg("City?")
IndexPrompt == Msg("Which city did you mean? Enter index:")
NotProvided == Msg("No city name provided, please try again.")
NotFound == Msg("No city found for that query, please try again.")
MultipleMatches == Msg("Multiple matches found:")
Goodbye == Msg("Goodbye!")

InvalidChoice ==
    IF variant = "weather"
    THEN Msg("Invalid choice, please enter a valid number from the list above.")
    ELSE Msg("Invalid choice, please try again.")

\* one line of the enumerated list: the state is left out when it is absent
\* or repeats the name
MenuLine(idx, city_info) ==
    IF city_info.state # "" /\ city_info.state # city_info.name
    THEN [msg |-> "menu", idx |-> idx, name |-> city_info.name,
          state |-> city_info.state, country |-> city_info.country]
    ELSE [msg |-> "menu", idx |-> idx, name |-> city_info.name,
          state |-> "", country |-> city_info.country]

Menu(cities) ==
    <<MultipleMatches>>
    \o [idx \in 1..Len(cities) |-> MenuLine(idx, cities[idx])]
    \o <<IndexPrompt>>

GeoRequest(q) ==
    [url |-> "/geo/1.0/direct", q |-> quote(q), limit |-> LIMIT]

\* the coordinates in the wrong order
ForecastRequest_swapped(city) ==
    [url |-> "/data/2.5/forecast", lat |-> city.lon, lon |-> city.lat,
     units |-> "metric"]

ForecastRequest(city) ==
    [url |-> "/data/2.5/forecast", lat |-> city.lat, lon |-> city.lon,
     units |-> "metric"]

\* 'response is None' in place of 'not response'
Falsy_none_only(r) == r.json = "null"

\* 'not response' on a decoded geocoding answer
Falsy(r) == r.json = "null" \/ r.items = <<>>

----------------------------------------------------------------------------
(* weather_forecast *)

\* range(i, stop, step) as the sequence of its values
RECURSIVE range(_, _, _)
range(i, stop, step) ==
    IF i < stop THEN <<i>> \o range(i + step, stop, step) ELSE <<>>

\* the description taken from the last weather element
DailySummary_last(entry) ==
    [date |-> Prefix(entry.dt_txt, DATE_LEN),
     description |-> title(entry.weather[Len(entry.weather)].description),
     temp |-> entry.main.temp_max]

\* the dictionary appended for one sampled entry
DailySummary(entry) ==
    [date |-> Prefix(entry.dt_txt, DATE_LEN),
     description |-> title(entry.weather[1].description),
     temp |-> entry.main.temp_max]

\* the loop without the cap: range(0, len(forecasts), 8)
weather_forecast_nocap(r) ==
    LET forecasts == IF r.hasList THEN r.list ELSE <<>>
        idx == range(0, Len(forecasts), STRIDE)
    IN [j \in 1..Len(idx) |-> DailySummary(forecasts[idx[j] + 1])]

\* the value returned for a decoded payload
weather_forecast(r) ==
    LET forecasts == IF r.hasList THEN r.list ELSE <<>>
        idx == range(0, Min(Len(forecasts), HORIZON), STRIDE)
    IN [j \in 1..Len(idx) |-> DailySummary(forecasts[idx[j] + 1])]

ForecastLine(day) ==
    [msg |-> "day", date |-> day.date, description |-> day.description,
     temp |-> day.temp]

----------------------------------------------------------------------------
(* The __main__ block *)

LoopStates == {"AwaitingQuery", "Resolving", "Disambiguating",
               "FetchingForecast", "Displaying"}
InputStates == {"AwaitingQuery", "Disambiguating"}

\* the handler leaving with sys.exit(1)
main_guard_exit1(e) ==
    IF e = "KeyboardInterrupt"
    THEN [pc |-> "Cancelled", out |-> <<Goodbye>>, exit_status |-> 1]
    ELSE [pc |-> "Crashed", out |-> <<>>, exit_status |-> 1]

\* except (KeyboardInterrupt, EOFError)
main_guard_eof(e) ==
    IF e \in {"KeyboardInterrupt", "EOFError"}
    THEN [pc |-> "Cancelled", out |-> <<Goodbye>>, exit_status |-> 0]
    ELSE [pc |-> "Crashed", out |-> <<>>, exit_status |-> 1]

\* a bare except
main_guard_catch_all(e) ==
    [pc |-> "Cancelled", out |-> <<Goodbye>>, exit_status |-> 0]

\* try: while True: main()  except KeyboardInterrupt: ...
\* where an exception e raised inside main() ends up
main_guard(e) ==
    IF e = "KeyboardInterrupt"
    THEN [pc |-> "Cancelled", out |-> <<Goodbye>>, exit_status |-> 0]
    ELSE [pc |-> "Crashed", out |-> <<>>, exit_status |-> 1]

\* an exception e raised at the current position
Raise(e) ==
    LET h == main_guard(e)
    IN /\ pc' = h.pc
       /\ out' = h.out
       /\ exit_status' = h.exit_status
       /\ exc' = e
       /\ prev' = pc
       /\ UNCHANGED <<variant, query, results, chosen_city, response,
                      forecast_data, http>>

\* main() returns and the loop calls it again: the next "City?" prompt is
\* written after the lines in 'said'
Return(said) ==
    /\ pc' = "AwaitingQuery"
    /\ prev' = pc
    /\ out' = said \o <<CityPrompt>>
    /\ results' = <<>>
    /\ chosen_city' = NoCity
    /\ response' = NoResponse
    /\ forecast_data' = <<>>
    /\ exc' = "None"
    /\ UNCHANGED <<variant, exit_status>>

\* the coordinates of 'city' are taken and the forecast request goes out
Fetch(city) ==
    /\ pc' = "FetchingForecast"
    /\ prev' = pc
    /\ chosen_city' = city
    /\ results' = <<>>
    /\ http' = Append(http, ForecastRequest(city))
    /\ out' = <<>>
    /\ exc' = "None"
    /\ UNCHANGED <<variant, query, response, forecast_data, exit_status>>

\* the answer cut to the first LIMIT entries before it is shown
Ask_truncated(cities) ==
    LET kept == SubSeq(cities, 1, Min(Len(cities), LIMIT))
    IN /\ pc' = "Disambiguating"
       /\ prev' = pc
       /\ results' = kept
       /\ out' = Menu(kept)
       /\ exc' = "None"
       /\ UNCHANGED <<variant, query, chosen_city, response, forecast_data,
                      http, exit_status>>

\* the enumerated list is written and the index prompt comes up
Ask(cities) ==
    /\ pc' = "Disambiguating"
    /\ prev' = pc
    /\ results' = cities
    /\ out' = Menu(cities)
    /\ exc' = "None"
    /\ UNCHANGED <<variant, query, chosen_city, response, forecast_data,
                   http, exit_status>>

\* the geocoding request goes out
Resolve(q) ==
    /\ pc' = "Resolving"
    /\ prev' = pc
    /\ query' = q
    /\ http' = <<GeoRequest(q)>>
    /\ out' = <<>>
    /\ exc' = "None"
    /\ UNCHANGED <<variant, results, chosen_city, response, forecast_data,
                   exit_status>>

\* the index loop on one line of input
Choose(l) ==
    IF isdigit(l)
    THEN LET n == int(l)
         IN IF n.exc # "None" THEN Raise(n.exc)
            ELSE IF 1 <= n.value /\ n.value <= Len(results)
                 THEN Fetch(results[n.value])
                 ELSE /\ out' = <<InvalidChoice, IndexPrompt>>
                      /\ prev' = pc
                      /\ exc' = "None"
                      /\ UNCHANGED <<variant, pc, query, results, chosen_city,
                                     response, forecast_data, http, exit_status>>
    ELSE /\ out' = <<InvalidChoice, IndexPrompt>>
         /\ prev' = pc
         /\ exc' = "None"
         /\ UNCHANGED <<variant, pc, query, results, chosen_city, response,
                        forecast_data, http, exit_status>>

----------------------------------------------------------------------------
(* Steps of src/weather.py *)

\* main() reads the query; search_city() refuses a blank one
W_ReadQuery ==
    /\ variant = "weather"
    /\ pc = "AwaitingQuery"
    /\ \E q \in Queries :
        /\ line' = q
        /\ geo_response' = NoAnswer
        /\ IF strip(q) = <<>>
           THEN Return(<<NotProvided>>) /\ query' = q /\ http' = <<>>
           ELSE Resolve(q)

\* search_city() gets the geocoding answer
W_GeoResponse ==
    /\ variant = "weather"
    /\ pc = "Resolving"
    /\ line' = NoText
    /\ \E r \in GeoResponses :
        /\ geo_response' = r
        /\ IF r.exc # "None" THEN Raise(r.exc)
           ELSE IF Falsy(r)
                THEN Return(<<NotFound>>) /\ UNCHANGED <<query, http>>
           ELSE IF Len(r.items) = 1 THEN Fetch(r.items[1])
           ELSE Ask(r.items)

\* search_city() reads an index
W_ReadChoice ==
    /\ variant = "weather"
    /\ pc = "Disambiguating"
    /\ geo_response' = NoAnswer
    /\ \E l \in Lines : line' = l /\ Choose(l)

(* Steps of src/testing.py *)

\* main() reads the query; search_city() sends it as it is
T_ReadQuery ==
    /\ variant = "testing"
    /\ pc = "AwaitingQuery"
    /\ geo_response' = NoAnswer
    /\ \E q \in Queries : line' = q /\ Resolve(q)

\* search_city() gets the geocoding answer, main() looks at it
T_GeoResponse ==
    /\ variant = "testing"
    /\ pc = "Resolving"
    /\ line' = NoText
    /\ \E r \in GeoResponses :
        /\ geo_response' = r
        /\ IF r.exc # "None" THEN Raise(r.exc)
           ELSE LET found == IF Falsy(r) THEN <<>> ELSE r.items
                IN IF found = <<>>
                   THEN Return(<<NotFound>>) /\ UNCHANGED <<query, http>>
                   ELSE IF Len(found) = 1 THEN Fetch(found[1])
                   ELSE Ask(found)

\* main() reads an index
T_ReadChoice ==
    /\ variant = "testing"
    /\ pc = "Disambiguating"
    /\ geo_response' = NoAnswer
    /\ \E l \in Lines : line' = l /\ Choose(l)

(* Steps the two files share *)

\* weather_forecast() gets the forecast answer and reduces it
ForecastResponse ==
    /\ pc = "FetchingForecast"
    /\ line' = NoText
    /\ geo_response' = NoAnswer
    /\ \E r \in ForecastResponses :
        IF r.exc # "None" THEN Raise(r.exc)
        ELSE /\ response' = r
             /\ forecast_data' = weather_forecast(r)
             /\ pc' = "Displaying"
             /\ prev' = pc
             /\ out' = <<>>
             /\ exc' = "None"
             /\ UNCHANGED <<variant, query, results, chosen_city, http,
                            exit_status>>

\* main() writes the forecast and returns
Display ==
    /\ pc = "Displaying"
    /\ line' = NoText
    /\ geo_response' = NoAnswer
    /\ UNCHANGED <<query, http>>
    /\ IF forecast_data # <<>>
       THEN Return(<<[msg |-> "Here's the weather in", name |-> chosen_city.name]>>
                   \o [i \in 1..Len(forecast_data) |-> ForecastLine(forecast_data[i])])
       ELSE Return(<<[msg |-> "No forecast data found for", name |-> chosen_city.name]>>)

(* The outside world *)

\* SIGINT arrives, Python raises KeyboardInterrupt where the process is
Interrupt ==
    /\ pc \in LoopStates
    /\ line' = NoText
    /\ geo_response' = NoAnswer
    /\ Raise("KeyboardInterrupt")

\* stdin is closed, input() raises EOFError
EndOfInput ==
    /\ pc \in InputStates
    /\ line' = NoText
    /\ geo_response' = NoAnswer
    /\ Raise("EOFError")

----------------------------------------------------------------------------

Init ==
    /\ variant \in {"weather", "testing"}
    /\ pc = "AwaitingQuery"
    /\ prev = "AwaitingQuery"
    /\ query = NoText
    /\ line = NoText
    /\ geo_response = NoAnswer
    /\ results = <<>>
    /\ chosen_city = NoCity
    /\ response = NoResponse
    /\ forecast_data = <<>>
    /\ out = <<CityPrompt>>
    /\ http = <<>>
    /\ exc = "None"
    /\ exit_status = -1

Next ==
    \/ W_ReadQuery
    \/ W_GeoResponse
    \/ W_ReadChoice
    \/ T_ReadQuery
    \/ T_GeoResponse
    \/ T_ReadChoice
    \/ ForecastResponse
    \/ Display
    \/ Interrupt
    \/ EndOfInput

Spec == Init /\ [][Next]_vars

----------------------------------------------------------------------------
(* Properties *)

Count(seq, m) == Cardinality({i \in 1..Len(seq) : seq[i] = m})

IsGeo(req) == req.url = "/geo/1.0/direct"
IsForecast(req) == req.url = "/data/2.5/forecast"

GeoAnswered == geo_response # NoAnswer /\ geo_response.exc = "None"
Matches == Len(geo_response.items)

Blank == query # NoText /\ \A i \in 1..Len(query) : query[i] = " "

\* the number of list entries of the forecast payload just reduced
L == IF response.hasList THEN Len(response.list) ELSE 0

SampledIndices == {0, 8, 16, 24, 32}

\* C1: the reduced sequence has as many elements as there are indices in
\* {0,8,16,24,32} below min(L,40), which is ceil(min(L,40)/8) and at most 5;
\* a payload with an empty or missing list gives the empty sequence, and the
\* reduction raises nothing: the forecast step fails on a transport or
\* decoding fault only
C1_ForecastLength ==
    /\ pc = "Displaying" =>
        /\ Len(forecast_data) = Cardinality({i \in SampledIndices : i < Min(L, 40)})
        /\ Len(forecast_data) = (Min(L, 40) + 7) \div 8
        /\ Len(forecast_data) <= 5
        /\ L = 0 => forecast_data = <<>> /\ exc = "None"
    /\ (prev = "FetchingForecast" /\ pc = "Crashed") => exc \in Faults

C1_Witness ==
    /\ pc = "Displaying"
    /\ L = 41
    /\ Len(forecast_data) = 5

\* the letters of a text, case put aside
Folded(t) == [i \in 1..Len(t) |-> IF Cased(t[i]) THEN LowerOf[t[i]] ELSE t[i]]

\* C2: element j (0-based) of the result is built from the upstream entry at
\* index 8*j alone: its date is the first 10 characters of that entry's
\* dt_txt, its description is the text of that entry's first weather element
\* and its temp is that entry's main.temp_max, in upstream order
C2_SampledEntries ==
    pc = "Displaying" =>
        \A j \in 0..(Len(forecast_data) - 1) :
            LET entry == response.list[8 * j + 1]
                day == forecast_data[j + 1]
            IN /\ Len(day.date) = Min(Len(entry.dt_txt), 10)
               /\ \A k \in 1..Len(day.date) : day.date[k] = entry.dt_txt[k]
               /\ Folded(day.description) = Folded(entry.weather[1].description)
               /\ day.temp = entry.main.temp_max

C2_Witness ==
    /\ pc = "Displaying"
    /\ Len(forecast_data) = 5
    /\ forecast_data[1] # forecast_data[2]
    /\ Len(response.list[9].weather) > 1
    /\ response.list[9] # response.list[10]

\* a line that writes a number in decimal digits
Numeral(l) == l # <<>> /\ \A i \in 1..Len(l) : l[i] \in {"0", "1", "2", "3", "7"}

\* C3: at the index prompt with N > 1 candidates a line is accepted exactly
\* when it denotes an integer k in 1..N, and then the k-th candidate is
\* chosen; any other line is answered with a re-prompt, the candidates and
\* the Disambiguating state stay as they are and the process goes on
C3_Disambiguation ==
    [][(pc = "Disambiguating" /\ line' # NoText) =>
          IF Numeral(line') /\ DecimalOf(line') \in 1..Len(results)
          THEN /\ pc' = "FetchingForecast"
               /\ chosen_city' = results[DecimalOf(line')]
          ELSE /\ pc' = "Disambiguating"
               /\ results' = results
               /\ Count(out', IndexPrompt) = 1
               /\ exit_status' = -1]_vars

\* C4: the state right before Cancelled is AwaitingQuery
C4_CancelledFromAwaitingQueryOnly ==
    pc = "Cancelled" => prev = "AwaitingQuery"

\* C4 (amended): the state right before Cancelled is any of the five states
\* of the loop, and Cancelled is entered by an interrupt signal only
C4_CancelledFromLoopByInterrupt ==
    pc = "Cancelled" => prev \in LoopStates /\ exc = "KeyboardInterrupt"

C4_Witness ==
    /\ pc = "Cancelled"
    /\ prev = "Disambiguating"
    /\ exc = "KeyboardInterrupt"

\* C5: an interrupt signal in any state of the loop leads straight to
\* Cancelled with the farewell written and exit status 0, and nothing
\* happens after Cancelled
C5_InterruptCancels ==
    /\ [](exc = "KeyboardInterrupt" =>
            /\ pc = "Cancelled"
            /\ prev \in LoopStates
            /\ out = <<Goodbye>>
            /\ exit_status = 0)
    /\ [][pc # "Cancelled"]_vars

C5_Witness ==
    /\ exc = "KeyboardInterrupt"
    /\ prev = "FetchingForecast"
    /\ pc = "Cancelled"
    /\ exit_status = 0

\* C6: a geocoding answer without matches (empty array, null, empty object)
\* writes the "No city found" message once and brings the loop back to
\* AwaitingQuery, with no disambiguation, no forecast request and no crash
C6_NotFound ==
    (GeoAnswered /\ Matches = 0) =>
        /\ pc = "AwaitingQuery"
        /\ prev = "Resolving"
        /\ Count(out, NotFound) = 1
        /\ Count(out, IndexPrompt) = 0
        /\ results = <<>>
        /\ \A i \in 1..Len(http) : ~IsForecast(http[i])
        /\ exc = "None"
        /\ exit_status = -1

C6_Witness ==
    /\ GeoAnswered
    /\ geo_response.json = "array"
    /\ Matches = 0
    /\ pc = "AwaitingQuery"
    /\ out = <<NotFound, CityPrompt>>

GeoRequests == SelectSeq(http, IsGeo)

\* C7: a blank query never reaches Disambiguating or FetchingForecast; the
\* callee-side variant sends no request for it, the caller-side variant
\* sends one geocoding request
C7_BlankQueryRecovered ==
    Blank =>
        /\ pc \notin {"Disambiguating", "FetchingForecast"}
        /\ variant = "weather" => http = <<>>
        /\ variant = "testing" => Len(GeoRequests) = 1

\* C7 (amended): the callee-side variant (src/weather.py) recovers a blank
\* query locally: no request, the "No city name provided" message and a
\* fresh prompt.  The caller-side variant (src/testing.py) sends one
\* geocoding request for it and then follows the upstream answer: back to
\* AwaitingQuery when it is empty, on to Disambiguating or FetchingForecast
\* when it is not
C7_BlankQueryByVariant ==
    Blank =>
        /\ variant = "weather" =>
            /\ http = <<>>
            /\ pc \in {"AwaitingQuery", "Cancelled", "Crashed"}
            /\ prev = "AwaitingQuery"
            /\ exc = "None" => out = <<NotProvided, CityPrompt>>
        /\ variant = "testing" =>
            /\ Len(GeoRequests) = 1
            /\ http[1] = [url |-> "/geo/1.0/direct",
                          q |-> [i \in 1..Len(query) |-> "%20"], limit |-> 5]
            /\ GeoAnswered =>
                /\ Matches = 0 => pc = "AwaitingQuery"
                /\ Matches = 1 => pc = "FetchingForecast"
                /\ Matches > 1 => pc = "Disambiguating"

C7_Witness ==
    /\ Blank
    /\ Len(query) = 1
    /\ variant = "weather"
    /\ pc = "AwaitingQuery"
    /\ out = <<NotProvided, CityPrompt>>

\* C8: the list handed to disambiguation has the upstream length capped at
\* 5, never more than 5 entries
C8_AtMostFive ==
    /\ pc = "Disambiguating" => Len(results) <= 5
    /\ (GeoAnswered /\ Matches > 1) => Len(results) = Min(Matches, 5)

\* C8 (amended): search_city hands on Empty or the upstream array as it was
\* received, same entries in the same order and of the same length; the cap
\* of 5 is only asked of the upstream (limit=5 in the request), the answer
\* is not cut
C8_AsReceived ==
    GeoAnswered =>
        /\ Len(GeoRequests) = 1 /\ http[1].limit = 5
        /\ Matches = 0 => results = <<>> /\ pc = "AwaitingQuery"
        /\ Matches = 1 => chosen_city = geo_response.items[1]
        /\ Matches > 1 => results = geo_response.items /\ pc = "Disambiguating"

C8_Witness ==
    /\ GeoAnswered
    /\ Matches = 6
    /\ pc = "Disambiguating"
    /\ results = geo_response.items
    /\ results[1] # results[2]

\* C9: a geocoding answer with exactly one candidate goes from Resolving
\* straight to FetchingForecast: nothing is written, no index is read and
\* the forecast request carries that candidate's lat and lon
C9_SoleCandidate ==
    (GeoAnswered /\ Matches = 1) =>
        /\ pc = "FetchingForecast"
        /\ prev = "Resolving"
        /\ out = <<>>
        /\ results = <<>>
        /\ Len(http) = 2
        /\ IsForecast(http[2])
        /\ http[2].lat = geo_response.items[1].lat
        /\ http[2].lon = geo_response.items[1].lon

C9_Witness ==
    /\ GeoAnswered
    /\ Matches = 1
    /\ pc = "FetchingForecast"
    /\ geo_response.items[1].lat # geo_response.items[1].lon

\* C10: a network failure or a non-JSON answer on either upstream call ends
\* the loop as a fatal fault: not back to AwaitingQuery, no farewell, not
\* Cancelled, and no request after it
C10_FaultIsFatal ==
    /\ [](exc \in Faults =>
            /\ pc = "Crashed"
            /\ prev \in {"Resolving", "FetchingForecast"}
            /\ Count(out, Goodbye) = 0
            /\ Count(out, CityPrompt) = 0
            /\ exit_status # 0)
    /\ [][pc # "Crashed" /\ (exc' \in Faults => http' = http)]_vars

C10_Witness ==
    /\ exc = "JSONDecodeError"
    /\ prev = "FetchingForecast"
    /\ pc = "Crashed"

====
